---- MODULE Spec2Model ----
(***************************************************************************)
(* ambigviz.py: per-position base and indel tallies over the first contig  *)
(* of a BAM file (class BamVisualiser).                                    *)
(*                                                                         *)
(* The alignment store (pysam.AlignmentFile) is modelled by the reads it   *)
(* reports at each pileup column.  Numbers that pandas keeps as floats are *)
(* exact rationals [n, d]; NaN is 0/0 (d = 0).                             *)
(***************************************************************************)
EXTENDS Integers, Sequences, FiniteSets, TLC

VARIABLES
    store,             \* self.bam_file: column (0-based) -> reads, in file order
    args,              \* the parsed command line
    pc,                \* "ready" | "running" | "done" | "failed"
    error,             \* the exception that ended the run, or "none"
    rows_list,         \* pileup(): the list of dicts get_base_counts returned
    pileup_df,         \* visualise(): the frame handed to plot_pileup
    counts_csv,        \* visualise(): the frame written by --save_counts
    mixed_csv,         \* calculate_all(): the frame written to mixed_bases.csv
    mixed_df,          \* calculate_all(): the frame handed to plot_pileup
    indel_count_dict,  \* count_indels(): the mapping being filled
    column,            \* count_indels(): index of the pileup column being read
    read               \* count_indels(): index of the next read of that column

vars == <<store, args, pc, error, rows_list, pileup_df, counts_csv,
          mixed_csv, mixed_df, indel_count_dict, column, read>>

-----------------------------------------------------------------------------
(* Bounds of the model                                                     *)

RefLen == 2            \* self.ref_length
MaxReads == 3          \* aligned reads in a store
MaxMinDepth == 2       \* --min_depth ranges over 0..MaxMinDepth
MaxPositions == 2      \* entries of --positions
MaxReadFraction == 9   \* --read_fraction ranges over 0..MaxReadFraction
MaxDepth == 9          \* reads of one base in a deeply covered column

-----------------------------------------------------------------------------
(* Program constants                                                       *)

WholeQuality == 8      \* quality_threshold of calculate_all
PercentDecimals == 2   \* percentages_df.round(2)

Bases == {"A", "C", "G", "T"}
CoverageOrder == <<"A", "C", "G", "T">>   \* order of count_coverage's arrays
ZipOrder == <<"A", "T", "C", "G">>        \* the string zipped in get_base_counts
CountColumns == <<"A", "T", "C", "G", "Insertion", "Deletion">>
PercentColumns == <<"A_percent", "T_percent", "C_percent", "G_percent",
                    "Insertion_percent", "Deletion_percent">>

Columns == 0 .. RefLen - 1
Positions == 1 .. RefLen

-----------------------------------------------------------------------------
(* Arithmetic helpers                                                      *)

RECURSIVE SumSeq(_)
SumSeq(s) == IF s = <<>> THEN 0 ELSE Head(s) + SumSeq(Tail(s))

RECURSIVE Pow10(_)
Pow10(k) == IF k = 0 THEN 1 ELSE 10 * Pow10(k - 1)

Abs(x) == IF x < 0 THEN -x ELSE x

\* A number pandas holds as a float: the rational n/d, NaN when d = 0.
FromInt(c) == [n |-> c, d |-> 1]
NaN == [n |-> 0, d |-> 0]
IsNaN(x) == x.d = 0
NumEq(x, y) == ~IsNaN(x) /\ ~IsNaN(y) /\ x.n * y.d = y.n * x.d
NumLtInt(x, k) == ~IsNaN(x) /\ x.n < k * x.d
NumNonzero(x) == IsNaN(x) \/ x.n # 0
NumAdd(x, y) ==
    IF IsNaN(x) \/ IsNaN(y) THEN NaN
    ELSE IF x.n = 0 THEN y
    ELSE IF y.n = 0 THEN x
    ELSE IF x.d = y.d THEN [n |-> x.n + y.n, d |-> x.d]
    ELSE [n |-> x.n * y.d + y.n * x.d, d |-> x.d * y.d]

\* numpy's rint: the integer nearest to num/den, ties to the even one.
RoundHalfEven(num, den) ==
    LET q == num \div den
        r == num % den
    IN  IF 2 * r < den THEN q
        ELSE IF 2 * r > den THEN q + 1
        ELSE IF q % 2 = 0 THEN q ELSE q + 1

-----------------------------------------------------------------------------
(* The alignment store, as pysam reports it                                *)

\* AlignmentFile.count_coverage(contig, start, stop, quality_threshold): four
\* arrays, one per base in the order A, C, G, T, each with one count per
\* column of start..stop-1: the reads that have a base aligned there (a read
\* that is a deletion at the column has none) of quality >= the threshold.
count_coverage(start, stop, quality_threshold) ==
    [i \in 1 .. 4 |->
        [k \in 1 .. (stop - start) |->
            Cardinality({j \in DOMAIN store[start + k - 1] :
                LET r == store[start + k - 1][j]
                IN  /\ ~r.is_del
                    /\ r.base = CoverageOrder[i]
                    /\ r.qual >= quality_threshold})]]

-----------------------------------------------------------------------------
(* pileup / get_base_counts                                                *)

DigitChars == <<"0", "1", "2", "3", "4", "5", "6", "7", "8", "9">>
DigitValue(ch) == (CHOOSE i \in 1 .. 10 : DigitChars[i] = ch) - 1

\* int(position) of a decimal string
RECURSIVE ParseInt(_)
ParseInt(text) ==
    IF text = <<>> THEN 0
    ELSE 10 * ParseInt(SubSeq(text, 1, Len(text) - 1)) + DigitValue(text[Len(text)])

\* int(position): the entries of --positions are strings, those of a range ints
int(position) ==
    IF position.kind = "str" THEN ParseInt(position.text) ELSE position.value

\* the gate with <= in place of <: a count equal to min_depth is lost
MinDepthGate_AtMost(base_counts_dict, min_depth) ==
    [key \in DOMAIN base_counts_dict |->
        IF base_counts_dict[key] <= min_depth THEN 0 ELSE base_counts_dict[key]]

\* lines 50-52: every key of the dict whose value is below min_depth is zeroed
MinDepthGate(base_counts_dict, min_depth) ==
    [key \in DOMAIN base_counts_dict |->
        IF base_counts_dict[key] < min_depth THEN 0 ELSE base_counts_dict[key]]

get_base_counts(position, min_depth, quality_threshold) ==
    LET pileup_columns == count_coverage(position - 1, position, quality_threshold)
        zipped == [base \in Bases |->
                      SumSeq(pileup_columns[CHOOSE i \in 1 .. 4 : ZipOrder[i] = base])]
        base_counts_dict ==
            [key \in {"position"} \cup Bases |->
                IF key = "position" THEN position ELSE zipped[key]]
    IN  MinDepthGate(base_counts_dict, min_depth)

pileup(positions, min_depth, quality_threshold) ==
    [i \in 1 .. Len(positions) |->
        get_base_counts(int(positions[i]), min_depth, quality_threshold)]

\* pd.DataFrame(rows_list): one row per dict, numeric cells
DataFrame(rows) ==
    [i \in 1 .. Len(rows) |->
        [key \in DOMAIN rows[i] |->
            IF key = "position" THEN rows[i][key] ELSE FromInt(rows[i][key])]]

\* the cell without the factor 100: a fraction, not a percentage
PercentCell_Fraction(count, total) ==
    IF IsNaN(count) \/ IsNaN(total) \/ total.n = 0 THEN NaN
    ELSE [n |-> RoundHalfEven(count.n * total.d * Pow10(PercentDecimals),
                              total.n * count.d),
          d |-> Pow10(PercentDecimals)]

\* one cell of percentages_df.round(2): count / total * 100, two decimals
PercentCell(count, total) ==
    IF IsNaN(count) \/ IsNaN(total) \/ total.n = 0 THEN NaN
    ELSE [n |-> RoundHalfEven(count.n * total.d * 100 * Pow10(PercentDecimals),
                              total.n * count.d),
          d |-> Pow10(PercentDecimals)]

NumSum4(row) ==
    IF \E b \in Bases : IsNaN(row[b]) THEN NaN
    ELSE [n |-> row["A"].n * row["T"].d * row["C"].d * row["G"].d
              + row["T"].n * row["A"].d * row["C"].d * row["G"].d
              + row["C"].n * row["A"].d * row["T"].d * row["G"].d
              + row["G"].n * row["A"].d * row["T"].d * row["C"].d,
          d |-> row["A"].d * row["T"].d * row["C"].d * row["G"].d]

pileup_percentages(df) ==
    [i \in 1 .. Len(df) |->
        LET total_counts == NumSum4(df[i])
        IN  [key \in DOMAIN df[i] |->
                IF key \in Bases THEN PercentCell(df[i][key], total_counts)
                ELSE df[i][key]]]

-----------------------------------------------------------------------------
(* count_indels                                                            *)

\* lines 266-272: both counters of every position of the reference at zero
ZeroIndels == [position \in Positions |-> [Deletion |-> 0, Insertion |-> 0]]

\* the step with insertions attributed to the column's own position
IndelStep_OwnPosition(dict, position, pileupread) ==
    IF pileupread.is_del \/ pileupread.indel > 0
    THEN LET field == IF pileupread.is_del THEN "Deletion" ELSE "Insertion"
         IN  IF position + 1 \in DOMAIN dict
             THEN [raised |-> FALSE,
                   dict |-> [dict EXCEPT ![position + 1][field] = @ + 1]]
             ELSE [raised |-> TRUE, dict |-> dict]
    ELSE [raised |-> FALSE, dict |-> dict]

\* lines 284-287 for one read of the pileup column whose pos is `position`;
\* indexing the dict with a key it lacks raises KeyError
IndelStep(dict, position, pileupread) ==
    IF pileupread.is_del
    THEN IF position + 1 \in DOMAIN dict
         THEN [raised |-> FALSE,
               dict |-> [dict EXCEPT ![position + 1].Deletion = @ + 1]]
         ELSE [raised |-> TRUE, dict |-> dict]
    ELSE IF pileupread.indel > 0 /\ ~pileupread.is_del
    THEN IF position + 2 \in DOMAIN dict
         THEN [raised |-> FALSE,
               dict |-> [dict EXCEPT ![position + 2].Insertion = @ + 1]]
         ELSE [raised |-> TRUE, dict |-> dict]
    ELSE [raised |-> FALSE, dict |-> dict]

\* the loop of lines 275-287 from read i of column c on
RECURSIVE IndelLoop(_, _, _)
IndelLoop(acc, c, i) ==
    IF acc.raised \/ c >= RefLen THEN acc
    ELSE IF i > Len(store[c]) THEN IndelLoop(acc, c + 1, 1)
    ELSE IndelLoop(IndelStep(acc.dict, c, store[c][i]), c, i + 1)

\* count_indels(): [raised, dict]; raised when the call ends in KeyError
count_indels == IndelLoop([raised |-> FALSE, dict |-> ZeroIndels], 0, 1)

\* count_indels() one statement at a time: lines 263-272
count_indels_begin ==
    /\ pc = "ready"
    /\ pc' = "running"
    /\ indel_count_dict' = ZeroIndels
    /\ column' = 0
    /\ read' = 1
    /\ UNCHANGED <<store, args, error, rows_list, pileup_df, counts_csv,
                   mixed_csv, mixed_df>>

\* lines 283-287 for the next read of the current pileup column
count_indels_read ==
    /\ pc = "running"
    /\ column < RefLen
    /\ read <= Len(store[column])
    /\ LET step == IndelStep(indel_count_dict, column, store[column][read])
       IN  IF step.raised
           THEN /\ pc' = "failed"
                /\ error' = "KeyError"
                /\ UNCHANGED <<indel_count_dict, read>>
           ELSE /\ indel_count_dict' = step.dict
                /\ read' = read + 1
                /\ UNCHANGED <<pc, error>>
    /\ UNCHANGED <<store, args, column, rows_list, pileup_df, counts_csv,
                   mixed_csv, mixed_df>>

\* line 275: the iterator moves to the next pileup column
count_indels_next ==
    /\ pc = "running"
    /\ column < RefLen
    /\ read > Len(store[column])
    /\ column' = column + 1
    /\ read' = 1
    /\ UNCHANGED <<store, args, pc, error, indel_count_dict, rows_list,
                   pileup_df, counts_csv, mixed_csv, mixed_df>>

\* line 288
count_indels_return ==
    /\ pc = "running"
    /\ column = RefLen
    /\ pc' = "done"
    /\ UNCHANGED <<store, args, error, indel_count_dict, column, read,
                   rows_list, pileup_df, counts_csv, mixed_csv, mixed_df>>

-----------------------------------------------------------------------------
(* visualise                                                               *)

\* args.positions.split(","): the pieces between the commas
RECURSIVE Split(_, _)
Split(text, piece) ==
    IF text = <<>> THEN <<piece>>
    ELSE IF Head(text) = "," THEN <<piece>> \o Split(Tail(text), <<>>)
    ELSE Split(Tail(text), Append(piece, Head(text)))

\* lines 100-105
SelectedPositions ==
    IF args.positions # <<>>
    THEN LET pieces == Split(args.positions, <<>>)
         IN  [i \in 1 .. Len(pieces) |-> [kind |-> "str", text |-> pieces[i]]]
    ELSE IF args.start_pos # 0 /\ args.end_pos # 0
    THEN [i \in 1 .. (args.end_pos + 1 - args.start_pos) |->
             [kind |-> "int", value |-> args.start_pos + i - 1]]
    ELSE <<>>

\* whether one of the branches of lines 100-105 assigns positions
SelectionBound ==
    args.positions # <<>> \/ (args.start_pos # 0 /\ args.end_pos # 0)

\* lines 108-116: the two indel columns, looked up by each row's position
WithIndels(df, indel_counts) ==
    [i \in 1 .. Len(df) |->
        [key \in DOMAIN df[i] \cup {"Insertions", "Deletions"} |->
            IF key = "Insertions" THEN indel_counts[df[i]["position"]].Insertion
            ELSE IF key = "Deletions" THEN indel_counts[df[i]["position"]].Deletion
            ELSE df[i][key]]]

Fail(exception, rows) ==
    /\ pc' = "failed"
    /\ error' = exception
    /\ rows_list' = rows
    /\ UNCHANGED <<store, args, pileup_df, counts_csv, mixed_csv, mixed_df,
                   indel_count_dict, column, read>>

visualise ==
    /\ pc = "ready"
    /\ ~args.calculate_all
    /\ IF ~SelectionBound THEN Fail("UnboundLocalError", <<>>)
       ELSE
       LET rows == pileup(SelectedPositions, args.min_depth, args.quality_threshold)
           df0 == DataFrame(rows)
           indel_counts == count_indels
       IN  IF args.indels /\ indel_counts.raised THEN Fail("KeyError", rows)
           ELSE IF args.indels /\ \E i \in 1 .. Len(df0) :
                       df0[i]["position"] \notin DOMAIN indel_counts.dict
           THEN Fail("KeyError", rows)
           ELSE
           LET df1 == IF args.indels THEN WithIndels(df0, indel_counts.dict) ELSE df0
               df2 == IF args.percentages THEN pileup_percentages(df1) ELSE df1
           IN  /\ pc' = "done"
               /\ rows_list' = rows
               /\ pileup_df' = df2
               /\ counts_csv' = IF args.save_counts THEN df2 ELSE <<>>
               /\ UNCHANGED <<store, args, error, mixed_csv, mixed_df,
                              indel_count_dict, column, read>>

-----------------------------------------------------------------------------
(* calculate_all                                                           *)

\* lines 135-169: one row per position of the reference, the base counts read
\* from count_coverage's arrays by index, the indel counts from count_indels
\* (zero when --indels is not given)
AllCounts(indel_counts) ==
    LET pileup_columns == count_coverage(0, RefLen, WholeQuality)
    IN  [pos \in 1 .. RefLen |->
            [position |-> pos,
             A |-> pileup_columns[1][pos],
             C |-> pileup_columns[2][pos],
             G |-> pileup_columns[3][pos],
             T |-> pileup_columns[4][pos],
             Insertion |-> indel_counts[pos].Insertion,
             Deletion |-> indel_counts[pos].Deletion]]

RowTotal(row) == SumSeq([i \in 1 .. 6 |-> row[CountColumns[i]]])

\* lines 171-174 and 232-235: the condition of df[...], which keeps the rows
\* that satisfy it, in order
Covered(row) == RowTotal(row) > 0

\* lines 176-208: column / six-column total * 100, not rounded
WithPercent(row) ==
    [key \in DOMAIN row \cup {PercentColumns[i] : i \in 1 .. 6} |->
        IF key \in DOMAIN row THEN row[key]
        ELSE LET i == CHOOSE k \in 1 .. 6 : PercentColumns[k] = key
             IN  [n |-> row[CountColumns[i]] * 100, d |-> RowTotal(row)]]

IsPercentColumn(key) == \E i \in 1 .. 6 : PercentColumns[i] = key

\* line 211: every cell of the frame below read_fraction becomes 0
ZeroBelow(row, read_fraction) ==
    [key \in DOMAIN row |->
        IF IsPercentColumn(key)
        THEN IF NumLtInt(row[key], read_fraction) THEN FromInt(0) ELSE row[key]
        ELSE IF row[key] < read_fraction THEN 0 ELSE row[key]]

NonzeroPercents(row) ==
    Cardinality({i \in 1 .. 6 : NumNonzero(row[PercentColumns[i]])})

\* the filter with > 0 in place of > 1
Ambiguous_AnyPercent(row) == NonzeroPercents(row) > 0

\* lines 214-229: more than one percentage column differs from 0
Ambiguous(row) == NonzeroPercents(row) > 1

\* lines 240-250
DropPercent(row) == [key \in {k \in DOMAIN row : ~IsPercentColumn(k)} |-> row[key]]

calculate_all ==
    /\ pc = "ready"
    /\ args.calculate_all
    /\ LET indel_counts == count_indels
       IN  IF args.indels /\ indel_counts.raised THEN Fail("KeyError", <<>>)
           ELSE
           LET counts == AllCounts(IF args.indels THEN indel_counts.dict
                                   ELSE ZeroIndels)
               covered == SelectSeq(counts, Covered)
               percent == [i \in 1 .. Len(covered) |-> WithPercent(covered[i])]
               zeroed == [i \in 1 .. Len(percent) |->
                             ZeroBelow(percent[i], args.read_fraction)]
               mixed == SelectSeq(SelectSeq(zeroed, Ambiguous), Covered)
           IN  /\ pc' = "done"
               /\ mixed_csv' = mixed
               /\ mixed_df' = [i \in 1 .. Len(mixed) |-> DropPercent(mixed[i])]
               /\ UNCHANGED <<store, args, error, rows_list, pileup_df,
                              counts_csv, indel_count_dict, column, read>>

-----------------------------------------------------------------------------
(* Inputs: the BAM files and command lines the checks range over           *)

\* The reads a column can hold: a base of quality 30 for each of A, C, G, T,
\* a T of quality 7 (below calculate_all's threshold), a read that is a
\* deletion at the column, and a read followed by an insertion.
ReadKinds ==
    << [base |-> "A", qual |-> 30, is_del |-> FALSE, indel |-> 0],
       [base |-> "C", qual |-> 30, is_del |-> FALSE, indel |-> 0],
       [base |-> "G", qual |-> 30, is_del |-> FALSE, indel |-> 0],
       [base |-> "T", qual |-> 30, is_del |-> FALSE, indel |-> 0],
       [base |-> "T", qual |-> 7, is_del |-> FALSE, indel |-> 0],
       [base |-> "-", qual |-> 0, is_del |-> TRUE, indel |-> 0],
       [base |-> "A", qual |-> 30, is_del |-> FALSE, indel |-> 1] >>

\* The nondecreasing sequences over 1..k of length at most n: one per bag.
SortedSeqs(k, n) ==
    {s \in UNION {[1 .. m -> 1 .. k] : m \in 0 .. n} :
        \A i \in 1 .. Len(s) - 1 : s[i] <= s[i + 1]}

\* The store that holds the reads placed by `slots`: slot value v stands for
\* a read of kind ((v - 1) % K) + 1 aligned at column (v - 1) \div K.
StoreOf(slots, kinds) ==
    [c \in Columns |->
        LET mine == SelectSeq(slots, LAMBDA v : (v - 1) \div Len(kinds) = c)
        IN  [i \in 1 .. Len(mine) |-> kinds[((mine[i] - 1) % Len(kinds)) + 1]]]

\* Every store of at most MaxReads reads of those kinds (up to file order).
Stores(kinds) ==
    {StoreOf(slots, kinds) : slots \in SortedSeqs(RefLen * Len(kinds), MaxReads)}

\* str(n)
RECURSIVE str(_)
str(n) == IF n < 10 THEN <<DigitChars[n + 1]>>
          ELSE str(n \div 10) \o <<DigitChars[(n % 10) + 1]>>

\* ",".join(str(p) for p in list)
RECURSIVE Joined(_)
Joined(list) ==
    IF Len(list) = 1 THEN str(list[1])
    ELSE str(list[1]) \o <<",">> \o Joined(Tail(list))

PositionLists == UNION {[1 .. m -> Positions] : m \in 1 .. MaxPositions}

\* --positions p1,p2,... or --start_pos s --end_pos e with s <= e
Selections ==
    {[positions |-> Joined(list), start_pos |-> 0, end_pos |-> 0] :
        list \in PositionLists}
    \cup {sel \in {[positions |-> <<>>, start_pos |-> s, end_pos |-> e] :
                      s \in Positions, e \in Positions} :
             sel.start_pos <= sel.end_pos}

\* the defaults of parse_args, with no position selected
NoArgs ==
    [calculate_all |-> FALSE, positions |-> <<>>, start_pos |-> 0, end_pos |-> 0,
     percentages |-> FALSE, min_depth |-> 0, save_counts |-> FALSE,
     quality_threshold |-> 0, read_fraction |-> 0, indels |-> FALSE]

Targeted(sel, md, qt, pct, ind, save) ==
    [NoArgs EXCEPT !.positions = sel.positions, !.start_pos = sel.start_pos,
                   !.end_pos = sel.end_pos, !.min_depth = md,
                   !.quality_threshold = qt, !.percentages = pct,
                   !.indels = ind, !.save_counts = save]

\* plain counts under a quality threshold, no minimum depth
QualityArgs ==
    {Targeted(sel, 0, qt, FALSE, FALSE, FALSE) :
        sel \in Selections, qt \in {0, WholeQuality}}

\* plain counts under a minimum depth
DepthArgs ==
    {Targeted(sel, md, 0, FALSE, FALSE, FALSE) :
        sel \in Selections, md \in 1 .. MaxMinDepth}

\* the output switches --percentages, --indels and --save_counts, on a range
OutputArgs ==
    {Targeted(sel, md, 0, flags[1], flags[2], flags[3]) :
        sel \in {x \in Selections : x.positions = <<>>},
        md \in {0, MaxMinDepth},
        flags \in [1 .. 3 -> BOOLEAN] \ {[i \in 1 .. 3 |-> FALSE]}}

\* --percentages alone, on a range
PercentArgs ==
    {Targeted(sel, 0, 0, TRUE, FALSE, save) :
        sel \in {x \in Selections : x.positions = <<>>}, save \in BOOLEAN}

WholeArgs ==
    {[NoArgs EXCEPT !.calculate_all = TRUE, !.read_fraction = rf, !.indels = ind] :
        rf \in 0 .. MaxReadFraction, ind \in BOOLEAN}

BaseReads == SubSeq(ReadKinds, 1, 5)
DepthReads == <<ReadKinds[1], ReadKinds[4]>>
IndelReads == <<ReadKinds[1], ReadKinds[4], ReadKinds[6], ReadKinds[7]>>
WholeReads == <<ReadKinds[1], ReadKinds[4], ReadKinds[5], ReadKinds[6], ReadKinds[7]>>

\* n copies of read r
Copies(r, n) == [i \in 1 .. n |-> r]

\* Deep coverage of the first column only: a, t and c reads of A, T and C.
DeepStores ==
    {[col \in Columns |->
        IF col = 0
        THEN Copies(ReadKinds[1], a) \o Copies(ReadKinds[4], t) \o Copies(ReadKinds[2], c)
        ELSE <<>>] :
        a \in 0 .. MaxDepth, t \in 0 .. MaxDepth, c \in 0 .. MaxDepth}

Ready ==
    /\ pc = "ready"
    /\ error = "none"
    /\ rows_list = <<>>
    /\ pileup_df = <<>>
    /\ counts_csv = <<>>
    /\ mixed_csv = <<>>
    /\ mixed_df = <<>>
    /\ indel_count_dict = <<>>
    /\ column = 0
    /\ read = 1

\* The state after parse_args() and BamVisualiser(args.bam): a whole-reference
\* run, or a targeted run that uses the output switches.
Init ==
    /\ \/ store \in Stores(IndelReads) /\ args \in OutputArgs \cup {NoArgs}
       \/ store \in DeepStores /\ args \in PercentArgs
       \/ store \in Stores(WholeReads) \cup DeepStores /\ args \in WholeArgs
    /\ Ready

Next == visualise \/ calculate_all

Spec == Init /\ [][Next]_vars

\* Targeted runs that only count: every selection, under each threshold.
InitPileup ==
    /\ \/ store \in Stores(BaseReads) /\ args \in QualityArgs
       \/ store \in Stores(DepthReads) /\ args \in DepthArgs
    /\ Ready

NextPileup == visualise

SpecPileup == InitPileup /\ [][NextPileup]_vars

\* What a pileup column reports of a read to count_indels: a plain read, a
\* deletion, a read followed by an insertion, a deletion followed by an
\* insertion, a read followed by a deletion.
PileupReads ==
    << ReadKinds[1], ReadKinds[6], ReadKinds[7],
       [base |-> "-", qual |-> 0, is_del |-> TRUE, indel |-> 1],
       [base |-> "A", qual |-> 30, is_del |-> FALSE, indel |-> -1] >>

\* A call of count_indels() on its own.
InitIndels ==
    /\ store \in Stores(PileupReads)
    /\ args = NoArgs
    /\ Ready

NextIndels ==
    \/ count_indels_begin
    \/ count_indels_read
    \/ count_indels_next
    \/ count_indels_return

SpecIndels == InitIndels /\ [][NextIndels]_vars

-----------------------------------------------------------------------------
(* Properties                                                              *)

Targeted_done == pc = "done" /\ ~args.calculate_all
Whole_done == pc = "done" /\ args.calculate_all

\* the positions requested, as numbers
Requested ==
    LET positions == SelectedPositions
    IN  [i \in 1 .. Len(positions) |-> int(positions[i])]

\* the reads of the store that report `base` at `position` with a quality of
\* at least `quality`
BaseReadsAt(position, base, quality) ==
    Cardinality({j \in DOMAIN store[position - 1] :
        /\ ~store[position - 1][j].is_del
        /\ store[position - 1][j].base = base
        /\ store[position - 1][j].qual >= quality})

\* C1: with min_depth = 0, each of the fields A, T, C, G of every tally equals
\* the number of reads at the requested position, of quality >=
\* quality_threshold, that report that same base.
C1_CountsMatchBases ==
    (Targeted_done /\ args.min_depth = 0) =>
        LET requested == Requested
        IN  \A i \in DOMAIN rows_list : \A base \in Bases :
                rows_list[i][base] =
                    BaseReadsAt(requested[i], base, args.quality_threshold)

\* C2: pileup returns one tally per requested position, in the order
\* requested, and the position field of tally i is the i-th requested position
\* whatever min_depth is.
C2_PositionsAsRequested ==
    Targeted_done =>
        LET requested == Requested
        IN  /\ Len(rows_list) = Len(requested)
            /\ \A i \in DOMAIN rows_list :
                  rows_list[i]["position"] = requested[i]

\* the tallies of the requested positions with no minimum depth
Unfiltered ==
    LET requested == Requested
    IN  [i \in 1 .. Len(requested) |->
            get_base_counts(requested[i], 0, args.quality_threshold)]

\* C9: each of A, T, C, G of a tally is its unfiltered count when that count
\* is >= min_depth and 0 otherwise, field by field, and filtering the tally
\* again with the same min_depth leaves it unchanged.
C9_MinDepthPerField ==
    Targeted_done =>
        LET unfiltered == Unfiltered
        IN  \A i \in DOMAIN rows_list :
                /\ \A base \in Bases :
                      rows_list[i][base] =
                          IF unfiltered[i][base] >= args.min_depth
                          THEN unfiltered[i][base] ELSE 0
                /\ MinDepthGate(rows_list[i], args.min_depth) = rows_list[i]

\* C9 witness: a tally in which the gate zeroed one nonzero count and kept
\* another.
C9_Witness ==
    /\ Targeted_done
    /\ LET unfiltered == Unfiltered
       IN  \E i \in DOMAIN rows_list : \E kept \in Bases, zeroed \in Bases :
               /\ rows_list[i][kept] > 0
               /\ unfiltered[i][zeroed] > 0
               /\ rows_list[i][zeroed] = 0

\* C7: with --save_counts the CSV of a targeted run holds the raw counts that
\* pileup computed, whether or not --percentages is given.
C7_SavedCountsAreRaw ==
    (Targeted_done /\ args.save_counts) =>
        /\ Len(counts_csv) = Len(rows_list)
        /\ \A i \in DOMAIN counts_csv : \A base \in Bases :
              NumEq(counts_csv[i][base], FromInt(rows_list[i][base]))

StrictlyIncreasing(df) ==
    \A i \in DOMAIN df : \A j \in DOMAIN df :
        i < j => df[i]["position"] < df[j]["position"]

\* C3: the positions of the table of a whole-reference run, as written to
\* mixed_bases.csv and as handed to the renderer, are strictly increasing
\* (hence unique) and lie in 1..reference length.
C3_PositionsIncreasing ==
    Whole_done =>
        /\ StrictlyIncreasing(mixed_csv)
        /\ StrictlyIncreasing(mixed_df)
        /\ \A i \in DOMAIN mixed_csv : mixed_csv[i]["position"] \in Positions
        /\ \A i \in DOMAIN mixed_df : mixed_df[i]["position"] \in Positions

PercentNames == {"A_percent", "T_percent", "C_percent", "G_percent",
                 "Insertion_percent", "Deletion_percent"}
CountNames == {"A", "T", "C", "G", "Insertion", "Deletion"}

\* C4: every row of the final table of calculate_all has at least two of the
\* six percentage columns different from 0.
C4_AtLeastTwoPercents ==
    Whole_done =>
        \A i \in DOMAIN mixed_csv :
            Cardinality({k \in PercentNames : mixed_csv[i][k].n # 0}) >= 2

\* C4 witness: a run with a positive read_fraction whose table keeps a row in
\* which some percentage column is 0.
C4_Witness ==
    /\ Whole_done
    /\ args.read_fraction > 0
    /\ \E i \in DOMAIN mixed_csv : \E k \in PercentNames : mixed_csv[i][k].n = 0

\* C10: every row of the table calculate_all hands to the renderer has at
\* least two nonzero count columns.
C10_AtLeastTwoCounts ==
    Whole_done =>
        \A i \in DOMAIN mixed_df :
            Cardinality({k \in CountNames : mixed_df[i][k] # 0}) >= 2

\* the sum of the cells of `row` in the columns `names`
RECURSIVE NumSum(_, _)
NumSum(row, names) ==
    IF names = {} THEN FromInt(0)
    ELSE LET k == CHOOSE x \in names : TRUE
         IN  NumAdd(row[k], NumSum(row, names \ {k}))

\* x lies in 100.00 +/- 0.02
Near100(x) == ~IsNaN(x) /\ Abs(100 * x.n - 10000 * x.d) <= 2 * x.d

\* x is at most 100.02
AtMost100(x) == ~IsNaN(x) /\ 100 * x.n <= 10002 * x.d

\* the four percentages pileup_percentages gives a row of positive total
FourPercentsSum ==
    (Targeted_done /\ args.percentages) =>
        \A i \in DOMAIN pileup_df :
            SumSeq([k \in 1 .. 4 |-> rows_list[i][ZipOrder[k]]]) > 0 =>
                Near100(NumSum(pileup_df[i], Bases))

\* C8 as stated: the four percentages of pileup_percentages, and the six
\* *_percent columns of every row written to mixed_bases.csv, sum to
\* 100.00 +/- 0.02 for every read_fraction.
C8_PercentsSumTo100 ==
    /\ FourPercentsSum
    /\ Whole_done =>
          \A i \in DOMAIN mixed_csv : Near100(NumSum(mixed_csv[i], PercentNames))

\* C8 amended: the four percentages of pileup_percentages sum to
\* 100.00 +/- 0.02; the six *_percent columns of a row written to
\* mixed_bases.csv sum to 100.00 +/- 0.02 when read_fraction is 0, and for
\* any read_fraction to at most 100.02 (the percentages below read_fraction
\* are written as 0).
C8_PercentsSumAmended ==
    /\ FourPercentsSum
    /\ Whole_done =>
          \A i \in DOMAIN mixed_csv :
              /\ AtMost100(NumSum(mixed_csv[i], PercentNames))
              /\ args.read_fraction = 0 =>
                    Near100(NumSum(mixed_csv[i], PercentNames))

\* C8 witness: a targeted run with --percentages whose row has three bases
\* covered, or a whole-reference run with read_fraction 0 whose table has a
\* row with three nonzero percentages.
C8_Witness ==
    \/ /\ Targeted_done
       /\ args.percentages
       /\ \E i \in DOMAIN pileup_df :
             Cardinality({b \in Bases : rows_list[i][b] > 0}) >= 3
    \/ /\ Whole_done
       /\ args.read_fraction = 0
       /\ \E i \in DOMAIN mixed_csv :
             Cardinality({k \in PercentNames : mixed_csv[i][k].n # 0}) >= 3

\* the reads of column c that count_indels has already handled
Handled(c) ==
    IF c < column THEN DOMAIN store[c]
    ELSE IF c = column THEN 1 .. (read - 1)
    ELSE {}

DeletionsSeen(c) ==
    IF c \notin Columns THEN 0
    ELSE Cardinality({j \in Handled(c) : store[c][j].is_del})

InsertionsSeen(c) ==
    IF c \notin Columns THEN 0
    ELSE Cardinality({j \in Handled(c) :
            ~store[c][j].is_del /\ store[c][j].indel > 0})

\* C5: count_indels starts from zero counts for positions 1..length and every
\* read of the column with 0-based coordinate c adds one to Deletion at c+1
\* if it is a deletion, else one to Insertion at c+2 if its indel length is
\* positive, else nothing: at every point of the scan, and in the mapping
\* returned, Deletion at p counts the deletion reads handled at column p-1
\* and Insertion at p the other reads of positive indel length at column p-2.
C5_IndelAttribution ==
    pc \in {"running", "done", "failed"} =>
        /\ DOMAIN indel_count_dict = Positions
        /\ \A p \in Positions :
              /\ indel_count_dict[p].Deletion = DeletionsSeen(p - 1)
              /\ indel_count_dict[p].Insertion = InsertionsSeen(p - 2)

\* C5 witness: count_indels returned a mapping with a deletion and an
\* insertion counted.
C5_Witness ==
    /\ pc = "done"
    /\ indel_count_dict # <<>>
    /\ \E p \in Positions : indel_count_dict[p].Deletion > 0
    /\ \E p \in Positions : indel_count_dict[p].Insertion > 0

\* C6: count_indels never ends in an exception, whatever the pileup holds,
\* and the mapping it returns has exactly the keys 1..reference length.
C6_IndelsAlwaysReturn ==
    /\ pc # "failed"
    /\ pc = "done" => DOMAIN indel_count_dict = Positions

====
